---- MODULE Spec2Model ----
(***************************************************************************)
(* RLevator: the Building / Elevator / Passenger state machine of          *)
(* src/rlevator/building.py, elevator.py and passenger.py.                 *)
(*                                                                         *)
(* A Python exception is modelled by the field "raised" of the building    *)
(* record an operation returns: an operation that raises keeps every       *)
(* mutation made before the raise (Python does not roll back) and the      *)
(* callers up the stack stop at that point.                                *)
(***************************************************************************)
EXTENDS Integers, Sequences, FiniteSets, TLC

\* ------------------------------------------------------------------ bounds
\* Building(num_floors=3, num_elevators=2, ...): the fixture BUILDING_3.
num_floors == 3
num_elevators == 2
\* max_queue and the elevator capacity of the modelled buildings.
max_queue == 2
Capacity == 2
\* max_wait_steps of every modelled passenger.
MaxWait == 1
\* Longest list of passengers already waiting when the operations start.
MaxSeed == 2
\* Longest batch of arrivals handed to one call.
MaxBatch == 1
\* Number of calls made on one building.
MaxCalls == 3
\* Highest floor number handed to Passenger.moved_correct_direction on its
\* own.
MaxFloor == 6
\* Passengers waiting, and the queue limit, where passengers of different
\* max_wait_steps share a queue.
MaxMixed == 3

Floors == 0 .. (num_floors - 1)
ElevatorNums == 0 .. (num_elevators - 1)
\* Python's None; also "no exception raised".
None == "None"
\* A constructor argument: None, an integer, or a list.
NoneArg == [kind |-> "None"]
IntArg(n) == [kind |-> "int", value |-> n]
ListArg(l) == [kind |-> "list", value |-> l]

\* ----------------------------------------------------------------- actions
\* class Action(Enum)
Action == {"WAIT", "MOVE_UP", "MOVE_DOWN", "LOAD_UP", "LOAD_DOWN", "UNLOAD"}

\* The values of the members, as a caller holding a number writes them: the
\* integer n is the string of its digit, which equals no member.
Numbers == {"0", "1", "2", "3", "4", "5"}

\* NUM_TO_ACTION
NUM_TO_ACTION(n) ==
    IF n = "0" THEN "WAIT"
    ELSE IF n = "1" THEN "MOVE_UP"
    ELSE IF n = "2" THEN "MOVE_DOWN"
    ELSE IF n = "3" THEN "LOAD_UP"
    ELSE IF n = "4" THEN "LOAD_DOWN"
    ELSE "UNLOAD"

\* -------------------------------------------------------------- passengers
\* Passenger.__init__: a passenger object; id is the object's identity.
Passenger(id, start_floor, destination_floor, max_wait_steps) ==
    [id |-> id, start_floor |-> start_floor,
     destination_floor |-> destination_floor,
     max_wait_steps |-> max_wait_steps, steps_age |-> 0, steps_wait |-> 0]

\* increment_step counting the step as waited wherever the passenger is.
increment_step_always_waits(p, in_elevator) ==
    [p EXCEPT !.steps_wait = @ + 1, !.steps_age = @ + 1]

\* increment_step counting the age only while the passenger rides.
increment_step_aging_in_elevator(p, in_elevator) ==
    [p EXCEPT !.steps_wait = IF ~in_elevator THEN @ + 1 ELSE @,
              !.steps_age = IF in_elevator THEN @ + 1 ELSE @]

\* Passenger.increment_step
increment_step(p, in_elevator) ==
    [p EXCEPT !.steps_wait = IF ~in_elevator THEN @ + 1 ELSE @,
              !.steps_age = @ + 1]

\* Passenger.get_start_floor reads the attribute start_floro, which no
\* Passenger has: every call raises AttributeError.
\* [raised |-> the exception, value |-> the value returned when none].
AttributeError == "AttributeError"
get_start_floor(p) == [raised |-> AttributeError, value |-> 0]

\* Passenger.get_destination_floor
get_destination_floor(p) == p.destination_floor

\* Passenger.reached_max_wait
reached_max_wait(p) == p.steps_age > p.max_wait_steps

\* reached_destination true on every floor at or above the destination.
reached_destination_or_above(p, elevator_floor) ==
    elevator_floor >= p.destination_floor

\* Passenger.reached_destination
reached_destination(p, elevator_floor) == elevator_floor = p.destination_floor

\* abs()
Abs(x) == IF x < 0 THEN -x ELSE x

\* moved_correct_direction true also when the elevator is no farther from
\* the destination than before.
moved_correct_direction_or_equal(p, elevator_start_floor, elevator_end_floor) ==
    LET orig_diff == Abs(elevator_start_floor - p.destination_floor)
        move_diff == Abs(elevator_end_floor - p.destination_floor)
    IN  move_diff <= orig_diff

\* Passenger.moved_correct_direction
moved_correct_direction(p, elevator_start_floor, elevator_end_floor) ==
    LET orig_diff == Abs(elevator_start_floor - p.destination_floor)
        move_diff == Abs(elevator_end_floor - p.destination_floor)
    IN  move_diff < orig_diff

\* --------------------------------------------------------------- elevators
\* min(), max()
Min(a, b) == IF a < b THEN a ELSE b
Max(a, b) == IF a > b THEN a ELSE b

\* _update_destinations that adds the occupants' destinations to the set
\* and drops none.
_update_destinations_accumulating(e) ==
    [e EXCEPT !.destinations = @ \cup
        {get_destination_floor(e.passengers[k]) : k \in 1 .. Len(e.passengers)}]

\* Elevator._update_destinations
_update_destinations(e) ==
    [e EXCEPT !.destinations =
        {get_destination_floor(e.passengers[k]) : k \in 1 .. Len(e.passengers)}]

\* Elevator.__init__: floor is start_floor as given.
Elevator(start_floor, cap, min_floor, max_floor) ==
    _update_destinations(
        [floor |-> start_floor, passengers |-> << >>, min_floor |-> min_floor,
         max_floor |-> max_floor, capacity |-> cap, destinations |-> {}])

\* Elevator.get_current_floor
get_current_floor(e) == e.floor

\* Elevator.get_count_passengers
get_count_passengers(e) == Len(e.passengers)

\* available_capacity counting one place too many.
available_capacity_plus_one(e) == e.capacity - Len(e.passengers) + 1

\* Elevator.available_capacity
available_capacity(e) == e.capacity - Len(e.passengers)

\* move clamping at min_floor only.
move_unclamped_above(e, floor_diff) ==
    [e EXCEPT !.floor = Max(e.floor + floor_diff, e.min_floor)]

\* Elevator.move
move(e, floor_diff) ==
    LET new_floor == Max(Min(e.floor + floor_diff, e.max_floor), e.min_floor)
    IN  [e EXCEPT !.floor = new_floor]

\* load_passengers boarding the passengers that fit before it raises.
load_passengers_filling(e, passengers) ==
    IF Len(passengers) > available_capacity(e)
    THEN [e |-> _update_destinations(
                    [e EXCEPT !.passengers =
                        @ \o SubSeq(passengers, 1, available_capacity(e))]),
          raised |-> "Exception"]
    ELSE [e |-> _update_destinations(
                    [e EXCEPT !.passengers = @ \o passengers]),
          raised |-> None]

\* Elevator.load_passengers: [e |-> the elevator, raised |-> the exception].
load_passengers(e, passengers) ==
    IF Len(passengers) > available_capacity(e)
    THEN [e |-> e, raised |-> "Exception"]
    ELSE [e |-> _update_destinations(
                    [e EXCEPT !.passengers = @ \o passengers]),
          raised |-> None]

\* The loop of unload_passengers letting every passenger out, whatever the
\* floor.
RECURSIVE unload_loop_everyone(_, _, _, _)
unload_loop_everyone(passengers, floor, k, acc) ==
    IF k > Len(passengers) THEN acc
    ELSE unload_loop_everyone(passengers, floor, k + 1,
            [acc EXCEPT !.unload_passengers = Append(@, passengers[k])])

\* Elevator.unload_passengers, the loop over self.passengers from index k:
\* acc = [unload_passengers, stay_passengers].
RECURSIVE unload_loop(_, _, _, _)
unload_loop(passengers, floor, k, acc) ==
    IF k > Len(passengers) THEN acc
    ELSE LET passenger == passengers[k]
         IN  IF reached_destination(passenger, floor)
             THEN unload_loop(passengers, floor, k + 1,
                    [acc EXCEPT !.unload_passengers = Append(@, passenger)])
             ELSE unload_loop(passengers, floor, k + 1,
                    [acc EXCEPT !.stay_passengers = Append(@, passenger)])

\* Elevator.unload_passengers: [e |-> the elevator, unload_passengers |-> ...].
unload_passengers(e) ==
    LET r == unload_loop(e.passengers, e.floor, 1,
                 [unload_passengers |-> << >>, stay_passengers |-> << >>])
    IN  [e |-> _update_destinations([e EXCEPT !.passengers = r.stay_passengers]),
         unload_passengers |-> r.unload_passengers]

\* Elevator.count_correct_move_passengers
count_correct_move_passengers(e, start_floor) ==
    Cardinality({k \in 1 .. Len(e.passengers) :
        moved_correct_direction(e.passengers[k], start_floor, e.floor)})

\* Elevator.count_incorrect_move_passengers
count_incorrect_move_passengers(e, start_floor) ==
    Cardinality({k \in 1 .. Len(e.passengers) :
        ~moved_correct_direction(e.passengers[k], start_floor, e.floor)})

\* ---------------------------------------------------------------- building
\* The Building object: its queues, elevators and per-step outputs, and the
\* exception the running call has raised (None while it has raised none).
EmptyQueues == [f \in Floors |-> << >>]

\* Building._initialize_queues
_initialize_queues(b) ==
    [b EXCEPT !.up_queues = EmptyQueues,
              !.down_queues = EmptyQueues,
              !.rejected_queue_passengers = << >>,
              !.deboarding_passengers = << >>,
              !.reached_max_wait_passengers = << >>,
              !.count_correct_direction_passengers = 0,
              !.count_incorrect_direction_passengers = 0]

\* The input checks of _initialize_elevators refusing a list of start floors
\* only when it is shorter than num_elevators.
_initialize_elevators_check_short_only(b) ==
    IF b.elevator_capacities.kind = "None" THEN "Exception"
    ELSE IF b.elevator_capacities.kind # "int"
            /\ Len(b.elevator_capacities.value) < num_elevators THEN "Exception"
    ELSE IF b.elevator_start_floors.kind # "None"
            /\ Len(b.elevator_start_floors.value) < num_elevators THEN "Exception"
    ELSE IF b.elevator_bounds.kind # "None"
            /\ Len(b.elevator_bounds.value) # num_elevators THEN "Exception"
    ELSE None

\* Building._initialize_elevators, the input checks: the exception raised.
_initialize_elevators_check(b) ==
    IF b.elevator_capacities.kind = "None" THEN "Exception"
    ELSE IF b.elevator_capacities.kind # "int"
            /\ Len(b.elevator_capacities.value) < num_elevators THEN "Exception"
    ELSE IF b.elevator_start_floors.kind # "None"
            /\ Len(b.elevator_start_floors.value) # num_elevators THEN "Exception"
    ELSE IF b.elevator_bounds.kind # "None"
            /\ Len(b.elevator_bounds.value) # num_elevators THEN "Exception"
    ELSE None

\* Building._initialize_elevators
_initialize_elevators(b) ==
    IF _initialize_elevators_check(b) # None
    THEN [b EXCEPT !.raised = _initialize_elevators_check(b)]
    ELSE [b EXCEPT !.elevators = [i \in ElevatorNums |->
            LET start_floor == IF b.elevator_start_floors.kind = "None" THEN 0
                               ELSE b.elevator_start_floors.value[i + 1]
                cap == IF b.elevator_capacities.kind = "int"
                       THEN b.elevator_capacities.value
                       ELSE b.elevator_capacities.value[i + 1]
                min_floor == IF b.elevator_bounds.kind = "None" THEN 0
                             ELSE b.elevator_bounds.value[i + 1][1]
                max_floor == IF b.elevator_bounds.kind = "None" THEN num_floors - 1
                             ELSE b.elevator_bounds.value[i + 1][2]
            IN  Elevator(start_floor, cap, min_floor, max_floor)]]

\* reset that builds the elevators anew and leaves the queues and the
\* outputs of the last step as they are.
reset_elevators_only(b) == _initialize_elevators(b)

\* Building.reset
reset(b) == _initialize_elevators(_initialize_queues(b))

\* Building.__init__
Building(queue_limit, elevator_capacities, elevator_start_floors, elevator_bounds) ==
    reset([num_floors |-> num_floors,
           num_elevators |-> num_elevators,
           max_queue |-> queue_limit,
           elevator_capacities |-> elevator_capacities,
           elevator_start_floors |-> elevator_start_floors,
           elevator_bounds |-> elevator_bounds,
           up_queues |-> EmptyQueues, down_queues |-> EmptyQueues,
           elevators |-> << >>,
           rejected_queue_passengers |-> << >>,
           deboarding_passengers |-> << >>,
           reached_max_wait_passengers |-> << >>,
           count_correct_direction_passengers |-> 0,
           count_incorrect_direction_passengers |-> 0,
           raised |-> None])

\* The loop of remove_max_wait_from_queue keeping in new_queue the passengers
\* it records as having reached their max wait.
RECURSIVE remove_max_wait_keeping(_, _, _, _)
remove_max_wait_keeping(b, queue, k, new_queue) ==
    IF k > Len(queue) THEN [b |-> b, new_queue |-> new_queue]
    ELSE IF reached_max_wait(queue[k])
         THEN remove_max_wait_keeping(
                [b EXCEPT !.reached_max_wait_passengers = Append(@, queue[k])],
                queue, k + 1, Append(new_queue, queue[k]))
         ELSE remove_max_wait_keeping(b, queue, k + 1, Append(new_queue, queue[k]))

\* The loop of remove_max_wait_from_queue putting each passenger that stays
\* at the head of new_queue (new_queue.insert(0, passenger)).
RECURSIVE remove_max_wait_reversing(_, _, _, _)
remove_max_wait_reversing(b, queue, k, new_queue) ==
    IF k > Len(queue) THEN [b |-> b, new_queue |-> new_queue]
    ELSE IF reached_max_wait(queue[k])
         THEN remove_max_wait_reversing(
                [b EXCEPT !.reached_max_wait_passengers = Append(@, queue[k])],
                queue, k + 1, new_queue)
         ELSE remove_max_wait_reversing(b, queue, k + 1, <<queue[k]>> \o new_queue)

\* Building.remove_max_wait_from_queue, the loop over queue from index k:
\* [b |-> the building, new_queue |-> ...].
RECURSIVE remove_max_wait_from_queue_loop(_, _, _, _)
remove_max_wait_from_queue_loop(b, queue, k, new_queue) ==
    IF k > Len(queue) THEN [b |-> b, new_queue |-> new_queue]
    ELSE LET passenger == queue[k]
         IN  IF reached_max_wait(passenger)
             THEN remove_max_wait_from_queue_loop(
                    [b EXCEPT !.reached_max_wait_passengers = Append(@, passenger)],
                    queue, k + 1, new_queue)
             ELSE remove_max_wait_from_queue_loop(
                    b, queue, k + 1, Append(new_queue, passenger))

\* Building.remove_max_wait_from_queue
remove_max_wait_from_queue(b, queue) ==
    remove_max_wait_from_queue_loop(b, queue, 1, << >>)

\* Building.remove_max_wait_passengers, the loop over the up queues from i.
RECURSIVE remove_max_wait_up(_, _)
remove_max_wait_up(b, i) ==
    IF i >= num_floors THEN b
    ELSE LET r == remove_max_wait_from_queue(b, b.up_queues[i])
         IN  remove_max_wait_up(
                [r.b EXCEPT !.up_queues[i] = r.new_queue], i + 1)

\* Building.remove_max_wait_passengers, the loop over the down queues from i.
RECURSIVE remove_max_wait_down(_, _)
remove_max_wait_down(b, i) ==
    IF i >= num_floors THEN b
    ELSE LET r == remove_max_wait_from_queue(b, b.down_queues[i])
         IN  remove_max_wait_down(
                [r.b EXCEPT !.down_queues[i] = r.new_queue], i + 1)

\* remove_max_wait_passengers followed by the same pass over the occupants
\* of the elevators from index i on.
RECURSIVE remove_max_wait_riders(_, _)
remove_max_wait_riders(b, i) ==
    IF i >= num_elevators THEN b
    ELSE LET e == b.elevators[i]
             stays(p) == ~ reached_max_wait(p)
         IN  remove_max_wait_riders(
                [b EXCEPT
                   !.elevators[i] = _update_destinations(
                       [e EXCEPT !.passengers = SelectSeq(@, stays)]),
                   !.reached_max_wait_passengers =
                       @ \o SelectSeq(e.passengers, reached_max_wait)],
                i + 1)
remove_max_wait_passengers_and_riders(b) ==
    remove_max_wait_riders(remove_max_wait_down(remove_max_wait_up(b, 0), 0), 0)

\* Building.remove_max_wait_passengers
remove_max_wait_passengers(b) ==
    remove_max_wait_down(remove_max_wait_up(b, 0), 0)

\* Building.add_passenger_to_queue, from the test of the destination on, for
\* a start floor that was read.
add_passenger_to_queue_at(b, passenger, start_floor) ==
    IF get_destination_floor(passenger) > start_floor
    THEN IF Len(b.up_queues[start_floor]) < b.max_queue
         THEN [b EXCEPT !.up_queues[start_floor] = Append(@, passenger)]
         ELSE [b EXCEPT !.rejected_queue_passengers = Append(@, passenger)]
    ELSE IF get_destination_floor(passenger) < start_floor
    THEN IF Len(b.down_queues[start_floor]) < b.max_queue
         THEN [b EXCEPT !.down_queues[start_floor] = Append(@, passenger)]
         ELSE [b EXCEPT !.rejected_queue_passengers = Append(@, passenger)]
    ELSE [b EXCEPT !.raised = "Exception"]

\* add_passenger_to_queue reading passenger.start_floor itself and appending
\* without the test of the queue's length.
add_passenger_to_queue_unbounded(b, passenger) ==
    IF passenger.destination_floor > passenger.start_floor
    THEN [b EXCEPT !.up_queues[passenger.start_floor] = Append(@, passenger)]
    ELSE [b EXCEPT !.down_queues[passenger.start_floor] = Append(@, passenger)]

\* Building.add_passenger_to_queue
add_passenger_to_queue(b, passenger) ==
    LET start_floor == get_start_floor(passenger)
    IN  IF start_floor.raised # None
        THEN [b EXCEPT !.raised = start_floor.raised]
        ELSE add_passenger_to_queue_at(b, passenger, start_floor.value)

\* Building.add_arrivals_to_queues, the loop over passengers from index k.
RECURSIVE add_arrivals_loop(_, _, _)
add_arrivals_loop(b, passengers, k) ==
    IF k > Len(passengers) \/ b.raised # None THEN b
    ELSE add_arrivals_loop(
            add_passenger_to_queue(b, passengers[k]), passengers, k + 1)

\* Building.add_arrivals_to_queues
add_arrivals_to_queues(b, passengers) == add_arrivals_loop(b, passengers, 1)

\* update_move_direction_counts taking the floor the elevator has moved to
\* as the floor it started from.
update_move_direction_counts_after_move(b, elevator_num, start_floor) ==
    LET elevator == b.elevators[elevator_num]
    IN  [b EXCEPT
          !.count_correct_direction_passengers =
              @ + count_correct_move_passengers(elevator, elevator.floor),
          !.count_incorrect_direction_passengers =
              @ + count_incorrect_move_passengers(elevator, elevator.floor)]

\* Building.update_move_direction_counts
update_move_direction_counts(b, elevator_num, start_floor) ==
    LET elevator == b.elevators[elevator_num]
    IN  [b EXCEPT
          !.count_correct_direction_passengers =
              @ + count_correct_move_passengers(elevator, start_floor),
          !.count_incorrect_direction_passengers =
              @ + count_incorrect_move_passengers(elevator, start_floor)]

\* Building.move_down
move_down(b, elevator_num) ==
    LET start_floor == get_current_floor(b.elevators[elevator_num])
    IN  update_move_direction_counts(
            [b EXCEPT !.elevators[elevator_num] = move(@, -1)],
            elevator_num, start_floor)

\* Building.move_up
move_up(b, elevator_num) ==
    LET start_floor == get_current_floor(b.elevators[elevator_num])
    IN  update_move_direction_counts(
            [b EXCEPT !.elevators[elevator_num] = move(@, 1)],
            elevator_num, start_floor)

\* wait counting the occupants as a move of no floors.
wait_as_zero_move(b, elevator_num) ==
    update_move_direction_counts(b, elevator_num,
        get_current_floor(b.elevators[elevator_num]))

\* Building.wait
wait(b, elevator_num) == b

\* The loop of load popping the last passenger of the queue (queue.pop())
\* instead of the first.
RECURSIVE load_loop_from_tail(_, _, _)
load_loop_from_tail(queue, boarding_passengers, n) ==
    IF n <= 0 THEN [queue |-> queue, boarding_passengers |-> boarding_passengers]
    ELSE IF Len(queue) > 0
         THEN load_loop_from_tail(SubSeq(queue, 1, Len(queue) - 1),
                Append(boarding_passengers, queue[Len(queue)]), n - 1)
         ELSE load_loop_from_tail(queue, boarding_passengers, n - 1)

\* Building.load, the loop "for _ in range(available_capacity)" with n rounds
\* left: [queue |-> ..., boarding_passengers |-> ...].
RECURSIVE load_loop(_, _, _)
load_loop(queue, boarding_passengers, n) ==
    IF n <= 0 THEN [queue |-> queue, boarding_passengers |-> boarding_passengers]
    ELSE IF Len(queue) > 0
         THEN load_loop(Tail(queue), Append(boarding_passengers, Head(queue)), n - 1)
         ELSE load_loop(queue, boarding_passengers, n - 1)

\* Building.load, on elevator elevator_num and the queue of floor (the up
\* queue when up): the queue is the list object itself, popped in place.
load(b, elevator_num, floor, up) ==
    LET elevator == b.elevators[elevator_num]
        queue == IF up THEN b.up_queues[floor] ELSE b.down_queues[floor]
        r == load_loop(queue, << >>, available_capacity(elevator))
        l == load_passengers(elevator, r.boarding_passengers)
        popped == IF up THEN [b EXCEPT !.up_queues[floor] = r.queue]
                  ELSE [b EXCEPT !.down_queues[floor] = r.queue]
    IN  [popped EXCEPT !.elevators[elevator_num] = l.e, !.raised = l.raised]

\* load_up taking the up queue of the ground floor wherever the elevator is.
load_up_from_ground(b, elevator_num) == load(b, elevator_num, 0, TRUE)

\* Building.load_up
load_up(b, elevator_num) ==
    load(b, elevator_num, get_current_floor(b.elevators[elevator_num]), TRUE)

\* Building.load_down
load_down(b, elevator_num) ==
    load(b, elevator_num, get_current_floor(b.elevators[elevator_num]), FALSE)

\* Building.unload
unload(b, elevator_num) ==
    LET r == unload_passengers(b.elevators[elevator_num])
    IN  [b EXCEPT !.elevators[elevator_num] = r.e,
                  !.deboarding_passengers = @ \o r.unload_passengers]

\* execute_action looking a number up in NUM_TO_ACTION before it compares.
execute_action_by_number(b, elevator_num, action) ==
    LET member == IF action \in Numbers THEN NUM_TO_ACTION(action) ELSE action
    IN  IF member = "MOVE_DOWN" THEN move_down(b, elevator_num)
        ELSE IF member = "MOVE_UP" THEN move_up(b, elevator_num)
        ELSE IF member = "WAIT" THEN wait(b, elevator_num)
        ELSE IF member = "LOAD_UP" THEN load_up(b, elevator_num)
        ELSE IF member = "LOAD_DOWN" THEN load_down(b, elevator_num)
        ELSE IF member = "UNLOAD" THEN unload(b, elevator_num)
        ELSE b

\* Building.execute_action
execute_action(b, elevator_num, action) ==
    IF action = "MOVE_DOWN" THEN move_down(b, elevator_num)
    ELSE IF action = "MOVE_UP" THEN move_up(b, elevator_num)
    ELSE IF action = "WAIT" THEN wait(b, elevator_num)
    ELSE IF action = "LOAD_UP" THEN load_up(b, elevator_num)
    ELSE IF action = "LOAD_DOWN" THEN load_down(b, elevator_num)
    ELSE IF action = "UNLOAD" THEN unload(b, elevator_num)
    ELSE b

\* Building._increment_step
_increment_step(b) ==
    LET age_queue(queue) ==
            [k \in 1 .. Len(queue) |-> increment_step(queue[k], FALSE)]
        age_elevator(e) ==
            [e EXCEPT !.passengers =
                [k \in 1 .. Len(@) |-> increment_step(@[k], TRUE)]]
    IN  [b EXCEPT !.up_queues = [f \in Floors |-> age_queue(@[f])],
                  !.down_queues = [f \in Floors |-> age_queue(@[f])],
                  !.elevators = [i \in ElevatorNums |-> age_elevator(@[i])]]

\* The loop of execute_step taking the elevators from the highest index
\* down (enumerate over the reversed list).
RECURSIVE execute_actions_descending(_, _, _)
execute_actions_descending(b, action_list, elevator_num) ==
    IF elevator_num >= Len(action_list) \/ b.raised # None THEN b
    ELSE execute_actions_descending(
            execute_action(b, Len(action_list) - 1 - elevator_num,
                           action_list[Len(action_list) - elevator_num]),
            action_list, elevator_num + 1)

\* Building.execute_step, the loop over enumerate(action_list) from
\* elevator_num.
RECURSIVE execute_actions_loop(_, _, _)
execute_actions_loop(b, action_list, elevator_num) ==
    IF elevator_num >= Len(action_list) \/ b.raised # None THEN b
    ELSE execute_actions_loop(
            execute_action(b, elevator_num, action_list[elevator_num + 1]),
            action_list, elevator_num + 1)

\* execute_step without the reset of the step tracking values.
execute_step_keeping_outputs(b, arrived_passengers, action_list) ==
    IF Len(action_list) # num_elevators THEN [b EXCEPT !.raised = "Exception"]
    ELSE LET removed == remove_max_wait_passengers(b)
             added == add_arrivals_to_queues(removed, arrived_passengers)
             acted == execute_actions_loop(added, action_list, 0)
         IN  IF acted.raised # None THEN acted ELSE _increment_step(acted)

\* execute_step resetting the step tracking values before it checks the
\* length of action_list.
execute_step_clearing_first(b, arrived_passengers, action_list) ==
    LET cleared == [b EXCEPT !.deboarding_passengers = << >>,
                             !.rejected_queue_passengers = << >>,
                             !.reached_max_wait_passengers = << >>,
                             !.count_correct_direction_passengers = 0,
                             !.count_incorrect_direction_passengers = 0]
        removed == remove_max_wait_passengers(cleared)
        added == add_arrivals_to_queues(removed, arrived_passengers)
        acted == execute_actions_loop(added, action_list, 0)
    IN  IF Len(action_list) # num_elevators
        THEN [cleared EXCEPT !.raised = "Exception"]
        ELSE IF acted.raised # None THEN acted ELSE _increment_step(acted)

\* Building.execute_step
execute_step(b, arrived_passengers, action_list) ==
    IF Len(action_list) # num_elevators THEN [b EXCEPT !.raised = "Exception"]
    ELSE LET cleared == [b EXCEPT !.deboarding_passengers = << >>,
                                  !.rejected_queue_passengers = << >>,
                                  !.reached_max_wait_passengers = << >>,
                                  !.count_correct_direction_passengers = 0,
                                  !.count_incorrect_direction_passengers = 0]
             removed == remove_max_wait_passengers(cleared)
             added == add_arrivals_to_queues(removed, arrived_passengers)
             acted == execute_actions_loop(added, action_list, 0)
         IN  IF acted.raised # None THEN acted ELSE _increment_step(acted)

\* ------------------------------------------------------------ observation
\* The methods that read the building return [b, value]: the building after
\* the call (with the exception it raised, if any) and the value returned.

\* Elevator.get_destination_bool_list: one entry for each floor from
\* min_floor to max_floor.
get_destination_bool_list(e) ==
    [k \in 1 .. (e.max_floor - e.min_floor + 1) |->
        (e.min_floor + k - 1) \in e.destinations]

\* Building.elevator_destination_bool_list: the loop reads self.elevator,
\* an attribute no Building has.
elevator_destination_bool_list(b) ==
    IF num_elevators > 0
    THEN [b |-> [b EXCEPT !.raised = AttributeError], value |-> None]
    ELSE [b |-> b, value |-> << >>]

\* queue_request_button_statuses reporting the up queues under the down
\* buttons and the down queues under the up buttons.
queue_request_button_statuses_swapped(b) ==
    [b |-> b,
     value |-> << [i \in Floors |-> Len(b.down_queues[i]) > 0],
                  [i \in Floors |-> Len(b.up_queues[i]) > 0] >>]

\* Building.queue_request_button_statuses: [up_buttons, down_buttons].
queue_request_button_statuses(b) ==
    [b |-> b,
     value |-> << [i \in Floors |-> Len(b.up_queues[i]) > 0],
                  [i \in Floors |-> Len(b.down_queues[i]) > 0] >>]

\* The loops of get_reward_components: the passengers in the elevators from
\* index i on, and in the queues of the floors from i on.
RECURSIVE passengers_elevator(_, _)
passengers_elevator(b, i) ==
    IF i >= num_elevators THEN 0
    ELSE get_count_passengers(b.elevators[i]) + passengers_elevator(b, i + 1)
RECURSIVE passengers_queue(_, _)
passengers_queue(b, i) ==
    IF i >= num_floors THEN 0
    ELSE Len(b.up_queues[i]) + Len(b.down_queues[i]) + passengers_queue(b, i + 1)

\* Building.get_reward_components: the dict, each value tagged with its
\* Python type (the three lists are the building's own lists).
get_reward_components(b) ==
    [b |-> b,
     value |-> [deboarding_passengers |-> ListArg(b.deboarding_passengers),
                rejected_queue_passengers |-> ListArg(b.rejected_queue_passengers),
                reached_max_wait_passengers |-> ListArg(b.reached_max_wait_passengers),
                count_correct_direction_passengers |->
                    IntArg(b.count_correct_direction_passengers),
                count_incorrect_direction_passengers |->
                    IntArg(b.count_incorrect_direction_passengers),
                passengers_elevator |-> IntArg(passengers_elevator(b, 0)),
                passengers_queue |-> IntArg(passengers_queue(b, 0))]]

\* Building.get_observation_limited: the first argument of the first
\* array(...) call is evaluated first; array() itself has no keyword astype.
get_observation_limited(b) ==
    LET elevator_buttons == elevator_destination_bool_list(b)
    IN  IF elevator_buttons.b.raised # None
        THEN [b |-> elevator_buttons.b, value |-> None]
        ELSE [b |-> [b EXCEPT !.raised = "TypeError"], value |-> None]

\* ------------------------------------------------------------------- state
\* building: the one Building object (its attributes, and in raised the
\* exception its last call raised). The bookkeeping of the run: calls made,
\* passenger objects created so far, the last call, and every passenger a
\* call has reported as rejected, expired or deboarded.
VARIABLES building, calls, next_id, last_call, reported

vars == <<building, calls, next_id, last_call, reported>>

\* The Building object as a new call takes it.
self == [building EXCEPT !.raised = None]

\* Constructor arguments of the modelled buildings: the defaults; bounds
\* given without start floors; start floors and bounds both given, with one
\* capacity per elevator.
Configs ==
    { [max_queue |-> max_queue, elevator_capacities |-> IntArg(Capacity),
       elevator_start_floors |-> NoneArg, elevator_bounds |-> NoneArg],
      [max_queue |-> max_queue, elevator_capacities |-> IntArg(Capacity),
       elevator_start_floors |-> NoneArg,
       elevator_bounds |-> ListArg(<< <<0, num_floors - 1>>, <<1, num_floors - 1>> >>)],
      [max_queue |-> max_queue, elevator_capacities |-> ListArg(<<1, Capacity>>),
       elevator_start_floors |-> ListArg(<<1, num_floors - 1>>),
       elevator_bounds |-> ListArg(<< <<0, num_floors - 1>>, <<0, num_floors - 1>> >>)] }

\* (start floor, destination floor) of the passengers Passenger.__init__
\* accepts.
Trips == {t \in Floors \X Floors : t[1] # t[2]}

\* The trips of the passengers that arrive during the calls: one up from the
\* ground floor, one down to it.
ArrivalTrips == {<<0, num_floors - 1>>, <<1, 0>>}

\* The passenger objects a caller creates for one call, in order.
Batches(first_id) ==
    UNION { { [k \in 1 .. n |-> Passenger(first_id + k - 1, t[k][1], t[k][2], MaxWait)]
              : t \in [1 .. n -> ArrivalTrips] } : n \in 0 .. MaxBatch }

\* A batch holding one passenger object whose destination_floor the caller
\* has set to its start_floor after constructing it (Passenger.__init__
\* refuses to construct one).
SameFloorBatch(first_id) ==
    << [Passenger(first_id, 1, 0, MaxWait) EXCEPT !.destination_floor = 1] >>

\* The arrival lists handed to execute_step.
StepBatches(first_id) == Batches(first_id) \cup {SameFloorBatch(first_id)}

\* The action lists handed to execute_step: one action per elevator, fewer
\* actions than elevators, or one action too many.
ActionLists ==
    UNION { [1 .. n -> Action] : n \in 0 .. num_elevators }
        \cup { [k \in 1 .. num_elevators + 1 |-> "WAIT"] }

\* The passengers of a call's lists that the call itself put there.
Since(list, before) == SubSeq(list, Len(before) + 1, Len(list))
Report(b, rejected_before, deboarded_before, expired_before) ==
    LET tag(list, as) == [k \in 1 .. Len(list) |-> [id |-> list[k].id, as |-> as]]
    IN  reported' = reported
            \o tag(Since(b.reached_max_wait_passengers, expired_before), "expired")
            \o tag(Since(b.rejected_queue_passengers, rejected_before), "rejected")
            \o tag(Since(b.deboarding_passengers, deboarded_before), "deboarded")

\* The passengers of a list that wait at a floor for a direction, in order.
QueueOf(list, floor, up) ==
    LET mine(p) == /\ p.start_floor = floor
                   /\ IF up THEN p.destination_floor > floor
                      ELSE p.destination_floor < floor
    IN  SelectSeq(list, mine)

\* The object Building(num_floors, num_elevators, max_queue, ...) returns,
\* with the passengers of the list waiting in its queues.
InitBuilding(cfg, waiting) ==
    LET b == Building(cfg.max_queue, cfg.elevator_capacities,
                      cfg.elevator_start_floors, cfg.elevator_bounds)
    IN  building = [b EXCEPT
            !.up_queues = [f \in Floors |-> QueueOf(waiting, f, TRUE)],
            !.down_queues = [f \in Floors |-> QueueOf(waiting, f, FALSE)]]

\* The last call: the method, and for execute_action its arguments.
Call(op, elevator_num, action) ==
    [op |-> op, elevator_num |-> elevator_num, action |-> action]

Init ==
    /\ \E cfg \in Configs : InitBuilding(cfg, << >>)
    /\ calls = 0
    /\ next_id = 1
    /\ last_call = Call("__init__", 0, None)
    /\ reported = << >>

\* building.execute_step(arrived_passengers, action_list)
ExecuteStep ==
    /\ calls < MaxCalls
    /\ \E arrived_passengers \in StepBatches(next_id) :
       \E action_list \in ActionLists :
          /\ building' = execute_step(self, arrived_passengers, action_list)
          /\ IF Len(action_list) = num_elevators
             THEN Report(building', << >>, << >>, << >>)
             ELSE Report(building', building.rejected_queue_passengers,
                         building.deboarding_passengers,
                         building.reached_max_wait_passengers)
          /\ next_id' = next_id + Len(arrived_passengers)
    /\ last_call' = Call("execute_step", 0, None)
    /\ calls' = calls + 1

\* building.execute_action(elevator_num, action)
ExecuteAction ==
    /\ calls < MaxCalls
    /\ \E elevator_num \in ElevatorNums : \E action \in Action :
          /\ building' = execute_action(self, elevator_num, action)
          /\ last_call' = Call("execute_action", elevator_num, action)
    /\ Report(building', building.rejected_queue_passengers,
              building.deboarding_passengers,
              building.reached_max_wait_passengers)
    /\ calls' = calls + 1
    /\ UNCHANGED next_id

\* building.add_arrivals_to_queues(passengers)
AddArrivalsToQueues ==
    /\ calls < MaxCalls
    /\ \E passengers \in Batches(next_id) :
          /\ building' = add_arrivals_to_queues(self, passengers)
          /\ next_id' = next_id + Len(passengers)
    /\ Report(building', building.rejected_queue_passengers,
              building.deboarding_passengers,
              building.reached_max_wait_passengers)
    /\ last_call' = Call("add_arrivals_to_queues", 0, None)
    /\ calls' = calls + 1

\* building.remove_max_wait_passengers()
RemoveMaxWaitPassengers ==
    /\ calls < MaxCalls
    /\ building' = remove_max_wait_passengers(self)
    /\ Report(building', building.rejected_queue_passengers,
              building.deboarding_passengers,
              building.reached_max_wait_passengers)
    /\ last_call' = Call("remove_max_wait_passengers", 0, None)
    /\ calls' = calls + 1
    /\ UNCHANGED next_id

\* building._increment_step()
IncrementStep ==
    /\ calls < MaxCalls
    /\ building' = _increment_step(self)
    /\ last_call' = Call("_increment_step", 0, None)
    /\ calls' = calls + 1
    /\ UNCHANGED <<next_id, reported>>

\* building.reset()
Reset ==
    /\ calls < MaxCalls
    /\ building' = reset(self)
    /\ last_call' = Call("reset", 0, None)
    /\ calls' = calls + 1
    /\ UNCHANGED <<next_id, reported>>

Next ==
    \/ ExecuteStep
    \/ ExecuteAction
    \/ AddArrivalsToQueues
    \/ RemoveMaxWaitPassengers
    \/ IncrementStep
    \/ Reset

\* The program from construction.
Spec == Init /\ [][Next]_vars

\* ------------------------------------------------- constructor arguments
\* Constructor arguments beyond those of Configs: start floors and bounds
\* both given inside the building; no capacity, or a list of capacities one
\* short or one long; a list of start floors or of bounds one short or one
\* long; a negative max_queue.
FullBounds == <<0, num_floors - 1>>
AllConfigs ==
    LET default == [max_queue |-> max_queue, elevator_capacities |-> IntArg(Capacity),
                    elevator_start_floors |-> NoneArg, elevator_bounds |-> NoneArg]
    IN  Configs \cup
        { [default EXCEPT !.elevator_start_floors = ListArg(<<1, num_floors - 1>>),
                          !.elevator_bounds = ListArg(<<FullBounds, <<1, num_floors - 1>> >>)],
          [default EXCEPT !.elevator_capacities = NoneArg],
          [default EXCEPT !.elevator_capacities = ListArg(<<Capacity>>)],
          [default EXCEPT !.elevator_capacities = ListArg(<<1, Capacity, Capacity>>)],
          [default EXCEPT !.elevator_start_floors = ListArg(<<1>>)],
          [default EXCEPT !.elevator_start_floors = ListArg(<<0, 1, 1>>)],
          [default EXCEPT !.elevator_bounds = ListArg(<<FullBounds>>)],
          [default EXCEPT !.elevator_bounds = ListArg(<<FullBounds, FullBounds, FullBounds>>)],
          [default EXCEPT !.max_queue = -1] }

InitConfigs ==
    /\ \E cfg \in AllConfigs : InitBuilding(cfg, << >>)
    /\ calls = 0
    /\ next_id = 1
    /\ last_call = Call("__init__", 0, None)
    /\ reported = << >>

\* Building(...) returned an object: the constructor did not raise.
Created == ~ (last_call.op = "__init__" /\ building.raised # None)

\* The calls are made on the objects that exist.
NextCreated ==
    \/ Created /\ ExecuteStep
    \/ Created /\ ExecuteAction
    \/ Created /\ AddArrivalsToQueues
    \/ Created /\ RemoveMaxWaitPassengers
    \/ Created /\ IncrementStep
    \/ Created /\ Reset

\* The program from the call of its constructor.
SpecConfigs == InitConfigs /\ [][NextCreated]_vars

\* ----------------------------------------------------- populated buildings
\* The passengers waiting in a building when the operations start: a list of
\* at most MaxSeed passenger objects, each in the queue of its start floor
\* and direction, in list order, no queue longer than max_queue.
Waiting ==
    UNION { { [k \in 1 .. n |-> Passenger(k, t[k][1], t[k][2], MaxWait)]
              : t \in [1 .. n -> Trips] } : n \in 0 .. MaxSeed }

InitWaiting ==
    /\ \E cfg \in Configs : \E list \in Waiting :
        /\ \A f \in Floors : /\ Len(QueueOf(list, f, TRUE)) <= max_queue
                             /\ Len(QueueOf(list, f, FALSE)) <= max_queue
        /\ InitBuilding(cfg, list)
        /\ next_id = Len(list) + 1
    /\ calls = 0
    /\ last_call = Call("__init__", 0, None)
    /\ reported = << >>

\* Steps (and resets) of a building whose queues hold passengers.
NextStep ==
    \/ ExecuteStep
    \/ Reset

SpecWaiting == InitWaiting /\ [][NextStep]_vars

\* The operations a step is made of, called one by one on a building whose
\* queues hold passengers.
NextCalls ==
    \/ ExecuteAction
    \/ AddArrivalsToQueues
    \/ RemoveMaxWaitPassengers
    \/ IncrementStep

SpecCalls == InitWaiting /\ [][NextCalls]_vars

\* ------------------------------------------------------------ observation
\* building.queue_request_button_statuses()
QueueRequestButtonStatuses ==
    /\ calls < MaxCalls
    /\ building' = queue_request_button_statuses(self).b
    /\ last_call' = Call("queue_request_button_statuses", 0, None)
    /\ calls' = calls + 1
    /\ UNCHANGED <<next_id, reported>>

\* building.elevator_destination_bool_list()
ElevatorDestinationBoolList ==
    /\ calls < MaxCalls
    /\ building' = elevator_destination_bool_list(self).b
    /\ last_call' = Call("elevator_destination_bool_list", 0, None)
    /\ calls' = calls + 1
    /\ UNCHANGED <<next_id, reported>>

\* building.get_reward_components()
GetRewardComponents ==
    /\ calls < MaxCalls
    /\ building' = get_reward_components(self).b
    /\ last_call' = Call("get_reward_components", 0, None)
    /\ calls' = calls + 1
    /\ UNCHANGED <<next_id, reported>>

\* building.get_observation_limited()
GetObservationLimited ==
    /\ calls < MaxCalls
    /\ building' = get_observation_limited(self).b
    /\ last_call' = Call("get_observation_limited", 0, None)
    /\ calls' = calls + 1
    /\ UNCHANGED <<next_id, reported>>

\* The actions of the elevators and the methods that read the building,
\* called on a building whose queues hold passengers.
NextObserve ==
    \/ ExecuteAction
    \/ QueueRequestButtonStatuses
    \/ ElevatorDestinationBoolList
    \/ GetRewardComponents
    \/ GetObservationLimited

SpecObserve == InitWaiting /\ [][NextObserve]_vars

\* ------------------------------------------------------------ direct calls
\* The passenger lists a caller hands to Elevator.load_passengers: up to one
\* passenger more than the largest capacity.
DirectLoads(first_id) ==
    { [k \in 1 .. n |-> Passenger(first_id + k - 1, 0, num_floors - 1, MaxWait)]
      : n \in 0 .. Capacity + 1 }

\* building.elevators[elevator_num].load_passengers(passengers)
LoadPassengers ==
    /\ calls < MaxCalls
    /\ \E elevator_num \in ElevatorNums : \E passengers \in DirectLoads(next_id) :
          LET r == load_passengers(self.elevators[elevator_num], passengers)
          IN  /\ building' = [self EXCEPT !.elevators[elevator_num] = r.e,
                                          !.raised = r.raised]
              /\ last_call' = Call("load_passengers", elevator_num, None)
              /\ next_id' = next_id + Len(passengers)
    /\ calls' = calls + 1
    /\ UNCHANGED reported

\* building.execute_action(elevator_num, n) with a number for the action
ExecuteActionNumber ==
    /\ calls < MaxCalls
    /\ \E elevator_num \in ElevatorNums : \E n \in Numbers :
          /\ building' = execute_action(self, elevator_num, n)
          /\ last_call' = Call("execute_action", elevator_num, n)
    /\ Report(building', building.rejected_queue_passengers,
              building.deboarding_passengers,
              building.reached_max_wait_passengers)
    /\ calls' = calls + 1
    /\ UNCHANGED next_id

\* The actions of the elevators, given as members or as numbers, and direct
\* calls of load_passengers, on a building whose queues hold passengers.
NextDirect ==
    \/ ExecuteAction
    \/ ExecuteActionNumber
    \/ LoadPassengers

SpecDirect == InitWaiting /\ [][NextDirect]_vars

\* ------------------------------------------------------------ mixed queues
\* The passengers waiting in a building when the operations start, created
\* with max_wait_steps 0 or MaxWait: at most MaxMixed passenger objects, each
\* in the queue of its start floor and direction, in list order.
MixedWaiting ==
    UNION { { [k \in 1 .. n |-> Passenger(k, t[k][1], t[k][2], w[k])]
              : t \in [1 .. n -> ArrivalTrips], w \in [1 .. n -> {0, MaxWait}] }
            : n \in 0 .. MaxMixed }

\* Building(num_floors, num_elevators, max_queue=MaxMixed, elevator_capacities=Capacity)
InitMixed ==
    /\ \E list \in MixedWaiting :
        /\ InitBuilding([max_queue |-> MaxMixed,
                         elevator_capacities |-> IntArg(Capacity),
                         elevator_start_floors |-> NoneArg,
                         elevator_bounds |-> NoneArg], list)
        /\ next_id = Len(list) + 1
    /\ calls = 0
    /\ last_call = Call("__init__", 0, None)
    /\ reported = << >>

\* The operations a step is made of, called one by one on a building whose
\* queues hold passengers of different patience.
SpecMixed == InitMixed /\ [][NextCalls]_vars

\* ================================================================== claims
\* Passengers in the queues and in the elevators of a building.
Queued(b) ==
    UNION { {b.up_queues[f][k] : k \in 1 .. Len(b.up_queues[f])}
            \cup {b.down_queues[f][k] : k \in 1 .. Len(b.down_queues[f])}
            : f \in Floors }
Riding(b) ==
    UNION { {b.elevators[i].passengers[k] : k \in 1 .. Len(b.elevators[i].passengers)}
            : i \in ElevatorNums }

C2_ElevatorsWithinCapacity ==
    \A i \in ElevatorNums :
        Len(building.elevators[i].passengers) <= building.elevators[i].capacity

\* C2 witness: after a step an elevator is full and a passenger is still
\* waiting in the queue its first passenger boarded from.
C2_Witness ==
    /\ last_call.op = "execute_step"
    /\ \E i \in ElevatorNums :
        LET e == building.elevators[i]
        IN  /\ e.capacity > 0
            /\ Len(e.passengers) = e.capacity
            /\ \E p \in Queued(building) :
                /\ p.start_floor = e.passengers[1].start_floor
                /\ (p.destination_floor > p.start_floor)
                     = (e.passengers[1].destination_floor > e.passengers[1].start_floor)

\* C3: after any sequence of execute_step calls, every elevator's floor
\* satisfies min_floor <= floor <= max_floor.
C3_FloorWithinBounds ==
    last_call.op = "execute_step" =>
        \A i \in ElevatorNums :
            /\ building.elevators[i].min_floor <= building.elevators[i].floor
            /\ building.elevators[i].floor <= building.elevators[i].max_floor

\* The queue of a floor and direction.
QueueAt(b, floor, up) == IF up THEN b.up_queues[floor] ELSE b.down_queues[floor]

\* The step from the current state to the next is the call
\* add_arrivals_to_queues(passengers).
IsAddArrivals(passengers) ==
    /\ last_call'.op = "add_arrivals_to_queues"
    /\ next_id' = next_id + Len(passengers)
    /\ building' = add_arrivals_to_queues(self, passengers)

\* The j-th passenger of a batch finds room in the queue of its start floor
\* and direction: the queue's length before the batch plus the earlier
\* passengers of the batch for the same queue is below max_queue.
GoesUp(p) == p.destination_floor > p.start_floor
FindsRoom(b, passengers, j) ==
    LET p == passengers[j]
        ahead == {i \in 1 .. (j - 1) :
                    /\ passengers[i].start_floor = p.start_floor
                    /\ GoesUp(passengers[i]) = GoesUp(p)}
    IN  Len(QueueAt(b, p.start_floor, GoesUp(p))) + Cardinality(ahead) < max_queue

\* C4: arrival intake decides per passenger against the target queue's
\* current length: a passenger that finds max_queue entries is recorded as
\* rejected and not stored, any other is appended to the tail; a batch of n
\* arrivals for a queue holding k leaves min(k+n, max_queue) queued there and
\* max(0, k+n-max_queue) of them rejected.
C4_ArrivalIntake ==
    [][\A passengers \in Batches(next_id) :
        IsAddArrivals(passengers) =>
            /\ \A f \in Floors : \A up \in BOOLEAN :
                LET queue == QueueAt(building, f, up)
                    arrivals == QueueOf(passengers, f, up)
                    k == Len(queue)
                    n == Len(arrivals)
                IN  /\ Len(QueueAt(building', f, up)) = Min(k + n, max_queue)
                    /\ QueueAt(building', f, up)
                         = queue \o SubSeq(arrivals, 1, Min(k + n, max_queue) - k)
            /\ LET turned_away(p) ==
                     \E j \in 1 .. Len(passengers) :
                         /\ passengers[j] = p
                         /\ ~FindsRoom(building, passengers, j)
               IN  building'.rejected_queue_passengers
                     = building.rejected_queue_passengers
                         \o SelectSeq(passengers, turned_away)
      ]_vars

\* C5: an admitted passenger is filed at its start floor, into the up queue
\* when destination > start_floor and into the down queue otherwise; in
\* every reachable state every passenger of up_queues[f] has start_floor = f
\* and destination > f, every passenger of down_queues[f] has start_floor = f
\* and destination < f.
C5_FiledAtStartFloor ==
    /\ [](\A f \in Floors :
            /\ \A k \in 1 .. Len(building.up_queues[f]) :
                /\ building.up_queues[f][k].start_floor = f
                /\ building.up_queues[f][k].destination_floor > f
            /\ \A k \in 1 .. Len(building.down_queues[f]) :
                /\ building.down_queues[f][k].start_floor = f
                /\ building.down_queues[f][k].destination_floor < f)
    /\ [][\A passengers \in Batches(next_id) :
            IsAddArrivals(passengers) =>
                \A j \in 1 .. Len(passengers) :
                    FindsRoom(building, passengers, j) =>
                        LET p == passengers[j]
                            filed == QueueAt(building', p.start_floor, GoesUp(p))
                        IN  \E k \in 1 .. Len(filed) : filed[k] = p
         ]_vars

\* C6: LOAD_UP / LOAD_DOWN on an elevator boards exactly the first
\* min(available capacity, queue length) passengers of the matching queue at
\* the elevator's floor, in queue order, and leaves in the queue the
\* remaining suffix in its order.
C6_LoadIsFifo ==
    [][\A i \in ElevatorNums : \A up \in BOOLEAN :
        last_call' = Call("execute_action", i, IF up THEN "LOAD_UP" ELSE "LOAD_DOWN") =>
            LET e == building.elevators[i]
                queue == QueueAt(building, e.floor, up)
                n == Min(e.capacity - Len(e.passengers), Len(queue))
            IN  /\ building'.elevators[i].passengers
                     = e.passengers \o SubSeq(queue, 1, n)
                /\ QueueAt(building', e.floor, up) = SubSeq(queue, n + 1, Len(queue))
                /\ building'.raised = None
      ]_vars

\* C6 witness: a load has boarded the earlier of two passengers of one queue
\* and the later one is the queue's new front.
C6_Witness ==
    /\ last_call.op = "execute_action"
    /\ last_call.action \in {"LOAD_UP", "LOAD_DOWN"}
    /\ LET e == building.elevators[last_call.elevator_num]
           queue == QueueAt(building, e.floor, last_call.action = "LOAD_UP")
       IN  /\ Len(e.passengers) = e.capacity
           /\ Len(queue) > 0
           /\ e.passengers[Len(e.passengers)].start_floor = e.floor
           /\ e.passengers[Len(e.passengers)].steps_age = 0
           /\ e.passengers[Len(e.passengers)].id < queue[1].id

\* C7: UNLOAD removes from the elevator exactly the occupants whose
\* destination is the elevator's floor, however many, appends them in their
\* order to the deboarded list, and leaves the others aboard in their order.
C7_UnloadAtDestination ==
    [][\A i \in ElevatorNums :
        last_call' = Call("execute_action", i, "UNLOAD") =>
            LET e == building.elevators[i]
                leaves(p) == p.destination_floor = e.floor
                stays(p) == p.destination_floor # e.floor
            IN  /\ building'.elevators[i].passengers = SelectSeq(e.passengers, stays)
                /\ building'.deboarding_passengers
                     = building.deboarding_passengers \o SelectSeq(e.passengers, leaves)
                /\ building'.elevators[i].floor = e.floor
      ]_vars

\* C7 witness: an UNLOAD has deboarded some occupants of an elevator and left
\* another aboard; or has deboarded two at once.
C7_Witness ==
    /\ last_call.op = "execute_action"
    /\ last_call.action = "UNLOAD"
    /\ \/ /\ Len(building.deboarding_passengers) > 0
          /\ Len(building.elevators[last_call.elevator_num].passengers) > 0
       \/ Len(building.deboarding_passengers) > 1

\* A transition made by execute_step(arrived_passengers, action_list).
IsExecuteStep(arrived_passengers, action_list) ==
    /\ last_call'.op = "execute_step"
    /\ next_id' = next_id + Len(arrived_passengers)
    /\ building' = execute_step(self, arrived_passengers, action_list)

\* C8: in each execute_step, every passenger in a floor queue at the aging
\* pass gets age + 1 and wait + 1, and every passenger inside an elevator at
\* the aging pass gets age + 1 and keeps its wait.
C8_Aging ==
    [][(last_call'.op = "execute_step" /\ building'.raised = None) =>
        LET before == Queued(building) \cup Riding(building)
        IN  /\ \A q \in Queued(building') : \E p \in Queued(building) :
                  /\ p.id = q.id
                  /\ q.steps_age = p.steps_age + 1
                  /\ q.steps_wait = p.steps_wait + 1
            /\ \A r \in Riding(building') : \E p \in before :
                  /\ p.id = r.id
                  /\ r.steps_age = p.steps_age + 1
                  /\ r.steps_wait = p.steps_wait
      ]_vars

\* C8 witness: after two steps one passenger has waited in its queue through
\* both and another has ridden an elevator through at least one.
C8_Witness ==
    /\ last_call.op = "execute_step"
    /\ building.raised = None
    /\ \E q \in Queued(building) : q.steps_age = 2 /\ q.steps_wait = 2
    /\ \E r \in Riding(building) : r.steps_age = 2 /\ r.steps_wait < 2

\* The ids a call sequence has reported under a tag, one entry per report.
ReportedAs(as) ==
    LET tagged(r) == r.as = as
    IN  SelectSeq(reported, tagged)

\* C9: a queued passenger whose age exceeds max_wait_steps is removed from
\* its queue by the next expiry pass (that of the next execute_step that
\* accepts its action list) and is listed as expired exactly once
\* over the run; it is never also reported as deboarded or rejected and
\* never reappears in a queue or an elevator.
C9_ExpiredOnce ==
    /\ [](\A k \in 1 .. Len(reported) : reported[k].as = "expired" =>
            /\ \A j \in 1 .. Len(reported) :
                  reported[j].id = reported[k].id => j = k
            /\ \A p \in Queued(building) \cup Riding(building) :
                  p.id # reported[k].id)
    /\ [][(last_call'.op = "execute_step" /\ building'.raised # "Exception") =>
            \A p \in Queued(building) : p.steps_age > p.max_wait_steps =>
                /\ \A q \in Queued(building') \cup Riding(building') : q.id # p.id
                /\ Len(ReportedAs("expired")') = Len(ReportedAs("expired")) +
                     Cardinality({x \in Queued(building) :
                                    x.steps_age > x.max_wait_steps})
                /\ \E k \in 1 .. Len(building'.reached_max_wait_passengers) :
                     building'.reached_max_wait_passengers[k].id = p.id
         ]_vars

\* C9 witness: a passenger has been reported as expired while another
\* passenger of the same run has been reported as deboarded.
C9_Witness ==
    /\ Len(ReportedAs("expired")) > 0
    /\ Len(ReportedAs("deboarded")) > 0
    /\ last_call.op = "execute_step"

\* clamp(x, lo, hi)
Clamp(x, lo, hi) == IF x < lo THEN lo ELSE IF x > hi THEN hi ELSE x

\* The floor difference of an action: +1 for MOVE_UP, -1 for MOVE_DOWN.
Delta(action) ==
    IF action = "MOVE_UP" THEN 1 ELSE IF action = "MOVE_DOWN" THEN -1 ELSE 0

\* C10: a move sets the floor to clamp(floor + delta, min_floor, max_floor):
\* MOVE_UP at max_floor and MOVE_DOWN at min_floor leave the floor where it
\* is, raise no error, and the step completes.
C10_MoveClamps ==
    [][/\ \A i \in ElevatorNums : \A action \in {"MOVE_UP", "MOVE_DOWN"} :
            last_call' = Call("execute_action", i, action) =>
                LET e == building.elevators[i]
                IN  /\ building'.elevators[i].floor
                         = Clamp(e.floor + Delta(action), e.min_floor, e.max_floor)
                    /\ (e.floor = e.max_floor /\ action = "MOVE_UP")
                         => building'.elevators[i].floor = e.floor
                    /\ (e.floor = e.min_floor /\ action = "MOVE_DOWN")
                         => building'.elevators[i].floor = e.floor
                    /\ building'.raised = None
       /\ \A action_list \in [1 .. num_elevators -> {"MOVE_UP", "MOVE_DOWN"}] :
            IsExecuteStep(<< >>, action_list) =>
                /\ building'.raised = None
                /\ \A i \in ElevatorNums :
                     LET e == building.elevators[i]
                     IN  building'.elevators[i].floor
                           = Clamp(e.floor + Delta(action_list[i + 1]),
                                   e.min_floor, e.max_floor)
      ]_vars

\* C10 witness: the first call on a building whose second elevator starts at
\* its max_floor was MOVE_UP on that elevator, and it is still there.
C10_Witness ==
    /\ calls = 1
    /\ last_call = Call("execute_action", 1, "MOVE_UP")
    /\ building.elevator_start_floors = ListArg(<<1, num_floors - 1>>)
    /\ building.elevators[1].floor = building.elevators[1].max_floor
    /\ building.elevators[1].floor = num_floors - 1
    /\ building.raised = None

\* The action lists whose length differs from num_elevators.
WrongLengthLists == {action_list \in ActionLists : Len(action_list) # num_elevators}

\* The attributes of a Building that a call can change.
Attributes(b) == [b EXCEPT !.raised = None]

\* C11: execute_step called with an action list whose length differs from
\* num_elevators raises, and leaves every queue, elevator, counter and
\* per-step output as it was before the call.
C11_WrongLengthFailsUnchanged ==
    [][last_call'.op = "execute_step" =>
        \A arrived_passengers \in StepBatches(next_id) :
          next_id' = next_id + Len(arrived_passengers) =>
            \A action_list \in WrongLengthLists :
              building' = execute_step(self, arrived_passengers, action_list) =>
                /\ building'.raised # None
                /\ Attributes(building') = Attributes(building)
                /\ reported' = reported
      ]_vars

\* C11 witness: a call of execute_step has raised on a building that holds a
\* queued passenger, a riding passenger and a direction count of an earlier
\* step, all still there.
C11_Witness ==
    /\ last_call.op = "execute_step"
    /\ building.raised = "Exception"
    /\ Queued(building) # {}
    /\ Riding(building) # {}
    /\ building.count_correct_direction_passengers > 0

Ids(passengers) == [k \in 1 .. Len(passengers) |-> passengers[k].id]

\* The passengers of a queue the expiry pass leaves in it.
Unexpired(queue) ==
    LET stays(p) == p.steps_age <= p.max_wait_steps
    IN  SelectSeq(queue, stays)

\* The number of passengers that the elevators below index j standing on a
\* floor take from a queue of that floor holding len passengers, each taking
\* what its free places and the passengers left allow.
RECURSIVE TakenBefore(_, _, _, _)
TakenBefore(b, j, floor, len) ==
    IF j = 0 THEN 0
    ELSE LET taken == TakenBefore(b, j - 1, floor, len)
             e == b.elevators[j - 1]
         IN  taken + (IF e.floor = floor
                      THEN Min(e.capacity - Len(e.passengers), len - taken)
                      ELSE 0)

\* C13: within one execute_step the actions run by ascending elevator index:
\* when every elevator issues the same LOAD direction, elevator j boards, in
\* queue order, the passengers that follow those taken by the lower-indexed
\* elevators standing on its floor.
C13_LowerIndexLoadsFirst ==
    [][(last_call'.op = "execute_step" /\ next_id' = next_id) =>
        \A up \in BOOLEAN :
          LET action_list == [k \in 1 .. num_elevators |->
                                IF up THEN "LOAD_UP" ELSE "LOAD_DOWN"]
          IN  building' = execute_step(self, << >>, action_list) =>
                \A j \in ElevatorNums :
                  LET e == building.elevators[j]
                      queue == Unexpired(QueueAt(building, e.floor, up))
                      taken == TakenBefore(building, j, e.floor, Len(queue))
                      n == Min(e.capacity - Len(e.passengers), Len(queue) - taken)
                  IN  Ids(building'.elevators[j].passengers)
                        = Ids(e.passengers) \o Ids(SubSeq(queue, taken + 1, taken + n))
      ]_vars

\* C13 witness: two elevators on one floor have each boarded, in the same
\* step, a passenger of the same queue of that floor, the lower-indexed
\* elevator the one queued first.
C13_Witness ==
    /\ last_call.op = "execute_step"
    /\ building.raised = None
    /\ building.elevators[0].floor = building.elevators[1].floor
    /\ \E p \in Riding(building) : \E q \in Riding(building) :
          /\ \E k \in 1 .. Len(building.elevators[0].passengers) :
                building.elevators[0].passengers[k] = p
          /\ \E k \in 1 .. Len(building.elevators[1].passengers) :
                building.elevators[1].passengers[k] = q
          /\ p.id < q.id
          /\ p.start_floor = building.elevators[0].floor
          /\ q.start_floor = p.start_floor
          /\ (p.destination_floor > p.start_floor) = (q.destination_floor > q.start_floor)
          /\ p.steps_wait = q.steps_wait
          /\ p.steps_age = p.steps_wait + 1
          /\ q.steps_age = q.steps_wait + 1

\* The action lists execute_step accepts.
StepLists == [1 .. num_elevators -> Action]

\* The number of occupants, after a step, of the elevators from index j on
\* that the step's action list moved.
RECURSIVE MovedOccupants(_, _, _)
MovedOccupants(b, action_list, j) ==
    IF j >= num_elevators THEN 0
    ELSE (IF action_list[j + 1] \in {"MOVE_UP", "MOVE_DOWN"}
          THEN Len(b.elevators[j].passengers) ELSE 0)
         + MovedOccupants(b, action_list, j + 1)

\* C14: the per-step outputs are cleared at the start of every execute_step:
\* whatever the outputs of the earlier steps, after a step that accepts its
\* action list the rejected, deboarded and expired lists hold only passengers
\* that arrived with, rode into or were queued before that step, each once,
\* and the two direction counts add up to the occupants of the elevators the
\* step moved.
C14_OutputsOfThisStepOnly ==
    calls < MaxCalls =>
    \A arrived_passengers \in StepBatches(next_id) : \A action_list \in StepLists :
        LET after == execute_step(self, arrived_passengers, action_list)
            queued == {p.id : p \in Queued(building)}
            riding == {p.id : p \in Riding(building)}
            ids(list) == {list[k].id : k \in 1 .. Len(list)}
            once(list) == Cardinality(ids(list)) = Len(list)
        IN  /\ ids(after.rejected_queue_passengers) \subseteq ids(arrived_passengers)
            /\ ids(after.deboarding_passengers) \subseteq queued \cup riding
            /\ ids(after.reached_max_wait_passengers) \subseteq queued
            /\ once(after.rejected_queue_passengers)
            /\ once(after.deboarding_passengers)
            /\ once(after.reached_max_wait_passengers)
            /\ after.raised # None =>
                 /\ after.count_correct_direction_passengers = 0
                 /\ after.count_incorrect_direction_passengers = 0
            /\ after.raised = None =>
                 after.count_correct_direction_passengers
                   + after.count_incorrect_direction_passengers
                   = MovedOccupants(after, action_list, 0)

\* C14 witness: a step has ended with both direction counts at zero in a
\* building where an elevator carries, away from the floor it boarded at, a
\* passenger it has carried since the first of three steps: an earlier step
\* counted that passenger.
C14_Witness ==
    /\ last_call.op = "execute_step"
    /\ building.raised = None
    /\ calls = 3
    /\ building.count_correct_direction_passengers = 0
    /\ building.count_incorrect_direction_passengers = 0
    /\ \E i \in ElevatorNums :
         \E k \in 1 .. Len(building.elevators[i].passengers) :
           LET p == building.elevators[i].passengers[k]
           IN  /\ p.steps_age = 3
               /\ p.steps_wait = 0
               /\ p.start_floor # building.elevators[i].floor

\* |a - b|
Dist(a, b) == IF a >= b THEN a - b ELSE b - a

\* The occupants of an elevator that a move from floor before to floor after
\* brings strictly closer to their destination.
Closer(passengers, before, after) ==
    Cardinality({k \in 1 .. Len(passengers) :
        Dist(after, passengers[k].destination_floor)
          < Dist(before, passengers[k].destination_floor)})

\* Over the elevators from index j on that action_list moves: the occupants
\* brought closer to their destination (closer = TRUE) or the other occupants
\* (closer = FALSE), before being the building before the step and after the
\* building after it.
RECURSIVE MoveTotal(_, _, _, _, _)
MoveTotal(before, after, action_list, j, closer) ==
    IF j >= num_elevators THEN 0
    ELSE LET e == before.elevators[j]
             n == Closer(e.passengers, e.floor, after.elevators[j].floor)
         IN  (IF action_list[j + 1] \in {"MOVE_UP", "MOVE_DOWN"}
              THEN IF closer THEN n ELSE Len(e.passengers) - n
              ELSE 0)
             + MoveTotal(before, after, action_list, j + 1, closer)

\* C15: after execute_step the correct-direction total is the number of
\* occupants of the elevators given MOVE_UP or MOVE_DOWN that ended strictly
\* closer to their destination than the elevator's floor before the move, and
\* the incorrect-direction total is the number of the other occupants of
\* those elevators; the elevators given another action add to neither.
C15_DirectionTotals ==
    calls < MaxCalls =>
    \A action_list \in StepLists :
        LET after == execute_step(self, << >>, action_list)
        IN  after.raised = None =>
              /\ after.count_correct_direction_passengers
                   = MoveTotal(building, after, action_list, 0, TRUE)
              /\ after.count_incorrect_direction_passengers
                   = MoveTotal(building, after, action_list, 0, FALSE)
              /\ \A i \in ElevatorNums :
                   Ids(after.elevators[i].passengers)
                     = Ids(building.elevators[i].passengers)
                   \/ action_list[i + 1] \notin {"MOVE_UP", "MOVE_DOWN"}

\* C15 witness: one step has counted an occupant as moved in the correct
\* direction and another as moved in the incorrect one.
C15_Witness ==
    /\ last_call.op = "execute_step"
    /\ building.raised = None
    /\ building.count_correct_direction_passengers > 0
    /\ building.count_incorrect_direction_passengers > 0

\* A passenger object bound for a floor.
BoundFor(destination_floor) ==
    Passenger(0, IF destination_floor = 0 THEN 1 ELSE 0, destination_floor, MaxWait)

\* C16: moved_correct_direction(before, after) is true iff
\* |after - destination| < |before - destination|: false whenever
\* before = after, true for a 3 -> 4 move with destination 6, false for a
\* 3 -> 4 move with destination 1; and each move of an elevator counts as
\* moved in the correct direction the occupants for which that holds.
C16_MovedCorrectDirection ==
    /\ [](\A destination \in 0 .. MaxFloor :
          \A before \in 0 .. MaxFloor : \A after \in 0 .. MaxFloor :
            /\ moved_correct_direction(BoundFor(destination), before, after)
                 <=> Dist(after, destination) < Dist(before, destination)
            /\ before = after =>
                 ~ moved_correct_direction(BoundFor(destination), before, after))
    /\ [](/\ moved_correct_direction(BoundFor(6), 3, 4)
          /\ ~ moved_correct_direction(BoundFor(1), 3, 4))
    /\ [][\A i \in ElevatorNums : \A action \in {"MOVE_UP", "MOVE_DOWN"} :
            last_call' = Call("execute_action", i, action) =>
              LET e == building.elevators[i]
                  n == Closer(e.passengers, e.floor, building'.elevators[i].floor)
              IN  /\ building'.count_correct_direction_passengers
                       = building.count_correct_direction_passengers + n
                  /\ building'.count_incorrect_direction_passengers
                       = building.count_incorrect_direction_passengers
                           + Len(e.passengers) - n
         ]_vars

\* C16 witness: after a MOVE_UP, the moves of the run have counted an
\* occupant as moved in the correct direction and an occupant as not.
C16_Witness ==
    /\ last_call.op = "execute_action"
    /\ last_call.action = "MOVE_UP"
    /\ building.raised = None
    /\ building.count_correct_direction_passengers > 0
    /\ building.count_incorrect_direction_passengers > 0

\* C17: construction accepts elevator_capacities only as one integer or as
\* a sequence of exactly num_elevators values; a sequence of another length
\* and an absent capacity are errors and no Building is created.
C17_CapacitiesIntOrExactList ==
    LET capacities == building.elevator_capacities
        accepted == \/ capacities.kind = "int"
                    \/ /\ capacities.kind = "list"
                       /\ Len(capacities.value) = num_elevators
    IN  ~ accepted => ~ Created

\* The arguments of elevator i as C18 states them.
StartFloorOf(b, i) ==
    IF b.elevator_start_floors.kind = "None" THEN 0
    ELSE b.elevator_start_floors.value[i + 1]
BoundsOf(b, i) ==
    IF b.elevator_bounds.kind = "None" THEN <<0, num_floors - 1>>
    ELSE b.elevator_bounds.value[i + 1]

\* C18: construction fails when elevator_start_floors or elevator_bounds is
\* given with a length other than num_elevators; when absent every elevator
\* starts at floor 0 with bounds [0, num_floors - 1]; when given, elevator i
\* gets elevator_start_floors[i] and elevator_bounds[i].
C18_StartFloorsAndBounds ==
    last_call.op \in {"__init__", "reset"} =>
        LET wrong(arg) == arg.kind = "list" /\ Len(arg.value) # num_elevators
        IN  /\ (wrong(building.elevator_start_floors) \/ wrong(building.elevator_bounds))
                 => ~ Created
            /\ (Created /\ building.raised = None) =>
                 \A i \in ElevatorNums :
                    /\ building.elevators[i].floor = StartFloorOf(building, i)
                    /\ building.elevators[i].min_floor = BoundsOf(building, i)[1]
                    /\ building.elevators[i].max_floor = BoundsOf(building, i)[2]

\* C18 witness: a building constructed with start floors and bounds given,
\* its elevators at the given floors with the given bounds.
C18_Witness ==
    /\ last_call.op = "__init__"
    /\ Created
    /\ building.elevator_start_floors = ListArg(<<1, num_floors - 1>>)
    /\ building.elevator_bounds.kind = "list"
    /\ building.elevators[0].floor = 1
    /\ building.elevators[1].floor = num_floors - 1
    /\ building.elevators[1].min_floor = 1

\* C19: construction fails, creating no Building, whenever num_floors < 2,
\* num_elevators < 1 or max_queue < 0.
C19_SizesValidated ==
    (building.num_floors < 2 \/ building.num_elevators < 1 \/ building.max_queue < 0)
        => ~ Created

\* C20: from any reachable state, execute_step with exactly num_elevators
\* actions of the Action set and arrivals whose start floor differs from
\* their destination never raises.
C20_ValidStepNeverRaises ==
    calls < MaxCalls =>
        \A arrived_passengers \in Batches(next_id) : \A action_list \in StepLists :
            execute_step(self, arrived_passengers, action_list).raised = None

\* The building with the passengers older than their max_wait_steps taken
\* out of its queues.
Swept(b) ==
    [b EXCEPT !.up_queues = [f \in Floors |-> Unexpired(b.up_queues[f])],
              !.down_queues = [f \in Floors |-> Unexpired(b.down_queues[f])]]

C22_QueueButtons ==
    /\ [](LET buttons == queue_request_button_statuses(self).value
          IN  /\ Len(buttons) = 2
              /\ \A f \in Floors :
                   /\ buttons[1][f] <=> building.up_queues[f] # << >>
                   /\ buttons[2][f] <=> building.down_queues[f] # << >>)
    /\ [][last_call'.op = "queue_request_button_statuses" =>
            Attributes(building') = Attributes(building)]_vars

\* C22 witness: the snapshot has been computed for a building where, on one
\* floor, passengers wait to go up and none to go down, and an elevator has
\* boarded passengers since construction.
C22_Witness ==
    /\ last_call.op = "queue_request_button_statuses"
    /\ Riding(building) # {}
    /\ \E f \in Floors : /\ building.up_queues[f] # << >>
                         /\ building.down_queues[f] = << >>

\* C23: the observation's elevator destination flags form a matrix of
\* num_elevators rows of num_floors flags, the flag of elevator e and floor f
\* true exactly when an occupant of e has destination f, for every floor
\* 0 .. num_floors - 1 whatever the elevator's bounds.
C23_DestinationFlags ==
    /\ \A i \in ElevatorNums :
         LET flags == get_destination_bool_list(building.elevators[i])
         IN  /\ Len(flags) = num_floors
             /\ \A f \in Floors :
                  flags[f + 1] <=>
                    \E p \in Riding(building) :
                       /\ p.destination_floor = f
                       /\ \E k \in 1 .. Len(building.elevators[i].passengers) :
                            building.elevators[i].passengers[k].id = p.id
    /\ elevator_destination_bool_list(self).b.raised = None
    /\ get_observation_limited(self).b.raised = None

\* C24: the destinations an elevator caches are the destination floors of
\* its occupants, after any sequence of loads, unloads and moves.
C24_DestinationsOfOccupants ==
    \A i \in ElevatorNums :
        LET e == building.elevators[i]
        IN  \A f \in 0 .. MaxFloor :
              f \in e.destinations <=>
                \E k \in 1 .. Len(e.passengers) : e.passengers[k].destination_floor = f

\* C24 witness: an UNLOAD has let a passenger out of an elevator that keeps
\* another aboard, and the floor of the passenger that left is no longer
\* among the elevator's destinations.
C24_Witness ==
    /\ last_call.op = "execute_action"
    /\ last_call.action = "UNLOAD"
    /\ LET e == building.elevators[last_call.elevator_num]
       IN  /\ e.passengers # << >>
           /\ e.destinations # {}
           /\ \E k \in 1 .. Len(building.deboarding_passengers) :
                /\ building.deboarding_passengers[k].destination_floor = e.floor
                /\ e.floor \notin e.destinations

\* C25: after each execute_step the reward-component record holds the number
\* of passengers deboarded, rejected on arrival and expired in that step,
\* that step's correct and incorrect direction counts, the number of
\* passengers inside all the elevators and the number queued over all floors
\* and both directions.
C25_RewardComponentCounts ==
    calls < MaxCalls =>
    \A arrived_passengers \in Batches(next_id) : \A action_list \in StepLists :
        LET after == execute_step(self, arrived_passengers, action_list)
            components == get_reward_components(Attributes(after)).value
            count(component, n) == component.kind = "int" /\ component.value = n
        IN  /\ count(components.deboarding_passengers,
                     Len(after.deboarding_passengers))
            /\ count(components.rejected_queue_passengers,
                     Len(after.rejected_queue_passengers))
            /\ count(components.reached_max_wait_passengers,
                     Len(after.reached_max_wait_passengers))
            /\ count(components.count_correct_direction_passengers,
                     after.count_correct_direction_passengers)
            /\ count(components.count_incorrect_direction_passengers,
                     after.count_incorrect_direction_passengers)
            /\ count(components.passengers_elevator, Cardinality(Riding(after)))
            /\ count(components.passengers_queue, Cardinality(Queued(after)))

\* C26: expiry applies to queued passengers only: no occupant of an elevator
\* is in the expired list of a later step, and no passenger is reported both
\* as expired and as deboarded, or rides after being reported expired.
C26_BoardedNeverExpire ==
    /\ [][last_call'.op = "execute_step" =>
            \A p \in Riding(building) :
                \A k \in 1 .. Len(building'.reached_max_wait_passengers) :
                    building'.reached_max_wait_passengers[k].id # p.id]_vars
    /\ [](\A k \in 1 .. Len(reported) :
             reported[k].as = "expired" =>
                /\ \A p \in Riding(building) : p.id # reported[k].id
                /\ \A m \in 1 .. Len(reported) :
                      reported[m].as = "deboarded" => reported[m].id # reported[k].id)

\* C26 witness: a step has expired a queued passenger while an elevator
\* carries a passenger older than its max_wait_steps.
C26_Witness ==
    /\ last_call.op = "execute_step"
    /\ building.raised = None
    /\ building.reached_max_wait_passengers # << >>
    /\ \E p \in Riding(building) : p.steps_age > p.max_wait_steps + 1

\* C28: at construction an elevator's floor is its start floor clamped into
\* [min_floor, max_floor].
C28_StartFloorClamped ==
    (last_call.op = "__init__" /\ building.raised = None) =>
        \A i \in ElevatorNums :
            building.elevators[i].floor
              = Clamp(StartFloorOf(building, i), BoundsOf(building, i)[1],
                      BoundsOf(building, i)[2])

\* C29: reset() returns the building to its construction state, all queues
\* and per-step lists empty, both counts zero, every elevator empty at its
\* configured start floor; a step does not reset: every passenger queued or
\* riding before it is queued, riding, deboarded or expired after it.
C29_ResetOnlyOnReset ==
    [][/\ last_call'.op = "reset" =>
            /\ \A f \in Floors : /\ building'.up_queues[f] = << >>
                                 /\ building'.down_queues[f] = << >>
            /\ building'.rejected_queue_passengers = << >>
            /\ building'.deboarding_passengers = << >>
            /\ building'.reached_max_wait_passengers = << >>
            /\ building'.count_correct_direction_passengers = 0
            /\ building'.count_incorrect_direction_passengers = 0
            /\ \A i \in ElevatorNums :
                 /\ building'.elevators[i].passengers = << >>
                 /\ building'.elevators[i].destinations = {}
                 /\ building'.elevators[i].floor = StartFloorOf(building, i)
       /\ last_call'.op = "execute_step" =>
            LET ids(list) == {list[k].id : k \in 1 .. Len(list)}
                kept == {p.id : p \in Queued(building') \cup Riding(building')}
                          \cup ids(building'.deboarding_passengers)
                          \cup ids(building'.reached_max_wait_passengers)
            IN  \A p \in Queued(building) \cup Riding(building) : p.id \in kept
      ]_vars

\* C29 witness: reset() has been the first call on a building whose queues
\* held MaxSeed passengers, and has left it empty with an elevator at a
\* start floor other than the ground floor.
C29_Witness ==
    /\ last_call.op = "reset"
    /\ calls = 1
    /\ next_id = MaxSeed + 1
    /\ Queued(building) \cup Riding(building) = {}
    /\ \E i \in ElevatorNums : building.elevators[i].floor # 0

\* C30: the WAIT action on an elevator changes no queue, no elevator, no
\* list and no counter of the building.
C30_WaitChangesNothing ==
    [][(last_call'.op = "execute_action" /\ last_call'.action = "WAIT") =>
          Attributes(building') = Attributes(building)]_vars

\* C30 witness: WAIT was the action of an elevator carrying a passenger, in
\* a building with a passenger queued and a direction count above zero.
C30_Witness ==
    /\ last_call.op = "execute_action"
    /\ last_call.action = "WAIT"
    /\ building.elevators[last_call.elevator_num].passengers # << >>
    /\ Queued(building) # {}
    /\ building.count_correct_direction_passengers
         + building.count_incorrect_direction_passengers > 0

\* C31: Elevator.load_passengers called with more passengers than
\* available_capacity() raises, and leaves the elevator's passengers and
\* destinations as they were: none of the candidates is boarded.
C31_OverCapacityLoadRaises ==
    /\ [](\A i \in ElevatorNums : \A passengers \in DirectLoads(next_id) :
            LET e == building.elevators[i]
                r == load_passengers(e, passengers)
            IN  Len(passengers) > e.capacity - Len(e.passengers) =>
                  /\ r.raised = "Exception"
                  /\ r.e.passengers = e.passengers
                  /\ r.e.destinations = e.destinations)
    /\ [][(last_call'.op = "load_passengers" /\ building'.raised # None) =>
            Attributes(building') = Attributes(building)]_vars

\* C31 witness: load_passengers has raised on an elevator that carries a
\* passenger and has a place left.
C31_Witness ==
    /\ last_call.op = "load_passengers"
    /\ building.raised = "Exception"
    /\ LET e == building.elevators[last_call.elevator_num]
       IN  /\ e.passengers # << >>
           /\ Len(e.passengers) < e.capacity

\* C37: execute_action given a value that is none of the six members of
\* Action (the number 1 instead of Action.MOVE_UP) raises nothing and
\* changes no elevator, no queue and no count of the building.
C37_NumberIsNoAction ==
    [][(last_call'.op = "execute_action" /\ last_call'.action \notin Action) =>
          /\ building'.raised = None
          /\ Attributes(building') = Attributes(building)]_vars

\* C37 witness: execute_action was given the number 1 for an elevator that
\* carries a passenger below its max_floor, with a passenger queued on its
\* floor.
C37_Witness ==
    /\ last_call.op = "execute_action"
    /\ last_call.action = "1"
    /\ LET e == building.elevators[last_call.elevator_num]
       IN  /\ e.passengers # << >>
           /\ e.floor < e.max_floor
           /\ \E p \in Queued(building) : p.start_floor = e.floor

\* C32: a LOAD_UP (LOAD_DOWN) action on elevator i changes only the
\* passengers of elevator i and the up queue (down queue) of the floor it
\* stands on: every other queue, every other elevator, the floor of elevator
\* i and the outputs of the step are unchanged, and the passengers it boards
\* all have that floor as start floor.
C32_LoadFrame ==
    [][(last_call'.op = "execute_action"
            /\ last_call'.action \in {"LOAD_UP", "LOAD_DOWN"}) =>
         LET i == last_call'.elevator_num
             up == last_call'.action = "LOAD_UP"
             e == building.elevators[i]
             loaded == building'.elevators[i]
         IN  /\ \A f \in Floors :
                  /\ (f # e.floor \/ ~ up) =>
                        building'.up_queues[f] = building.up_queues[f]
                  /\ (f # e.floor \/ up) =>
                        building'.down_queues[f] = building.down_queues[f]
             /\ \A j \in ElevatorNums \ {i} :
                  building'.elevators[j] = building.elevators[j]
             /\ loaded.floor = e.floor
             /\ loaded.min_floor = e.min_floor
             /\ loaded.max_floor = e.max_floor
             /\ loaded.capacity = e.capacity
             /\ building'.rejected_queue_passengers = building.rejected_queue_passengers
             /\ building'.deboarding_passengers = building.deboarding_passengers
             /\ building'.reached_max_wait_passengers
                  = building.reached_max_wait_passengers
             /\ building'.count_correct_direction_passengers
                  = building.count_correct_direction_passengers
             /\ building'.count_incorrect_direction_passengers
                  = building.count_incorrect_direction_passengers
             /\ Len(loaded.passengers) >= Len(e.passengers)
             /\ SubSeq(loaded.passengers, 1, Len(e.passengers)) = e.passengers
             /\ \A k \in (Len(e.passengers) + 1) .. Len(loaded.passengers) :
                  loaded.passengers[k].start_floor = e.floor
      ]_vars

\* C32 witness: after a LOAD_UP an elevator above the ground floor carries a
\* passenger that started on its floor, while a passenger still waits to go
\* up from the ground floor.
C32_Witness ==
    /\ last_call.op = "execute_action"
    /\ last_call.action = "LOAD_UP"
    /\ LET e == building.elevators[last_call.elevator_num]
       IN  /\ e.floor > 0
           /\ \E k \in 1 .. Len(e.passengers) :
                /\ e.passengers[k].start_floor = e.floor
                /\ e.passengers[k].steps_age = 0
    /\ building.up_queues[0] # << >>

\* The number of positions a passenger object holds in a building: in the
\* queues, in the elevators and in the three lists of the last step.
Positions(list, id) == Cardinality({k \in 1 .. Len(list) : list[k].id = id})
RECURSIVE PositionsInQueues(_, _, _)
PositionsInQueues(b, id, f) ==
    IF f >= num_floors THEN 0
    ELSE Positions(b.up_queues[f], id) + Positions(b.down_queues[f], id)
           + PositionsInQueues(b, id, f + 1)
RECURSIVE PositionsInElevators(_, _, _)
PositionsInElevators(b, id, i) ==
    IF i >= num_elevators THEN 0
    ELSE Positions(b.elevators[i].passengers, id) + PositionsInElevators(b, id, i + 1)
Places(b, id) ==
    PositionsInQueues(b, id, 0) + PositionsInElevators(b, id, 0)
      + Positions(b.rejected_queue_passengers, id)
      + Positions(b.reached_max_wait_passengers, id)
      + Positions(b.deboarding_passengers, id)

\* C33: passenger conservation: after a step every passenger supplied to it
\* as an arrival, and every passenger that was queued or riding before it,
\* is in exactly one place: one position of one queue, one elevator, or the
\* step's rejected, expired or deboarded list.
C33_PassengerConservation ==
    calls < MaxCalls =>
    \A arrived_passengers \in Batches(next_id) : \A action_list \in StepLists :
        LET after == execute_step(self, arrived_passengers, action_list)
            held == {p.id : p \in Queued(building) \cup Riding(building)}
            supplied == {arrived_passengers[k].id : k \in 1 .. Len(arrived_passengers)}
        IN  \A id \in held \cup supplied : Places(after, id) = 1

\* The passengers in the three lists of the last step.
Listed(b) ==
    {b.rejected_queue_passengers[k] : k \in 1 .. Len(b.rejected_queue_passengers)}
      \cup {b.deboarding_passengers[k] : k \in 1 .. Len(b.deboarding_passengers)}
      \cup {b.reached_max_wait_passengers[k] :
              k \in 1 .. Len(b.reached_max_wait_passengers)}

\* C34: for passengers created with age and wait 0, in every reachable state
\* steps_wait <= steps_age for every passenger, and steps_wait = steps_age
\* for every passenger in a floor queue.
C34_WaitAtMostAge ==
    /\ \A p \in Queued(building) \cup Riding(building) \cup Listed(building) :
          /\ 0 <= p.steps_wait
          /\ p.steps_wait <= p.steps_age
    /\ \A p \in Queued(building) : p.steps_wait = p.steps_age

\* C34 witness: one passenger waits in a queue with a wait above zero while
\* another rides with a wait above zero and an age above its wait.
C34_Witness ==
    /\ \E p \in Queued(building) : p.steps_wait > 0
    /\ \E p \in Riding(building) : /\ p.steps_wait > 0
                                   /\ p.steps_age > p.steps_wait

Boarded(before, after, i) ==
    SubSeq(after.elevators[i].passengers,
           Len(before.elevators[i].passengers) + 1,
           Len(after.elevators[i].passengers))

\* C36: the expiry pass keeps the order of a queue: the passengers that
\* remain are in the order they had before it, none that has not reached its
\* max wait is missing, and a LOAD that follows boards the earliest-queued
\* of them first.
C36_ExpiryKeepsOrder ==
    /\ [][last_call'.op = "remove_max_wait_passengers" =>
            \A f \in Floors : \A up \in BOOLEAN :
                LET old == QueueAt(building, f, up)
                    new == QueueAt(building', f, up)
                IN  /\ \A a \in 1 .. Len(new) : \A c \in 1 .. Len(new) :
                          a < c => \E x \in 1 .. Len(old) : \E y \in 1 .. Len(old) :
                                      /\ x < y
                                      /\ old[x] = new[a]
                                      /\ old[y] = new[c]
                    /\ \A x \in 1 .. Len(old) :
                          old[x].steps_age <= old[x].max_wait_steps =>
                             \E a \in 1 .. Len(new) : new[a] = old[x]
         ]_vars
    /\ [](\A i \in ElevatorNums : \A up \in BOOLEAN :
            LET swept == remove_max_wait_passengers(self)
                e == building.elevators[i]
                loaded == IF up THEN load_up(swept, i) ELSE load_down(swept, i)
                survivors == Unexpired(QueueAt(building, e.floor, up))
            IN  Boarded(building, loaded, i)
                  = SubSeq(survivors, 1,
                           Min(e.capacity - Len(e.passengers), Len(survivors))))

\* C36 witness: the expiry pass has removed a passenger that stood between
\* two others in its queue, and both are still queued in their order.
C36_Witness ==
    /\ last_call.op = "remove_max_wait_passengers"
    /\ \E f \in Floors : \E up \in BOOLEAN :
         \E k \in 1 .. Len(building.reached_max_wait_passengers) :
            LET gone == building.reached_max_wait_passengers[k]
                queue == QueueAt(building, f, up)
            IN  /\ Len(queue) >= 2
                /\ gone.start_floor = f
                /\ GoesUp(gone) = up
                /\ queue[1].id < gone.id
                /\ gone.id < queue[2].id

\* C38: a passenger leaves an elevator only through an UNLOAD of that
\* elevator issued while its floor is the passenger's destination; so a
\* passenger aboard an elevator whose [min_floor, max_floor] does not
\* contain its destination is still aboard after every later call, and the
\* elevator's available capacity stays below its capacity.
C38_LeavesOnlyAtDestination ==
    [][\A i \in ElevatorNums :
         LET e == building.elevators[i]
             after == building'.elevators[i]
         IN  \A k \in 1 .. Len(e.passengers) :
               LET p == e.passengers[k]
                   aboard == \E m \in 1 .. Len(after.passengers) :
                                after.passengers[m].id = p.id
               IN  /\ ~ aboard =>
                        /\ last_call' = Call("execute_action", i, "UNLOAD")
                        /\ e.floor = p.destination_floor
                        /\ \E m \in 1 .. Len(building'.deboarding_passengers) :
                              building'.deboarding_passengers[m].id = p.id
                   /\ (p.destination_floor < e.min_floor
                         \/ p.destination_floor > e.max_floor) =>
                        /\ aboard
                        /\ available_capacity(after) < after.capacity
      ]_vars

\* C38 witness: after an UNLOAD an elevator still carries a passenger whose
\* destination is below the elevator's min_floor.
C38_Witness ==
    /\ last_call.op = "execute_action"
    /\ last_call.action = "UNLOAD"
    /\ LET e == building.elevators[last_call.elevator_num]
       IN  \E k \in 1 .. Len(e.passengers) :
             e.passengers[k].destination_floor < e.min_floor

====
